---- MODULE Spec2Model ----
(***************************************************************************)
(* Model of the genre/artist track recommender (app.py, recommend_api.py): *)
(* clean_string, recommend_based_on_genre_artist, recommend_from_favorites,*)
(* recommend_from_watch_history and the two /recommend handlers.           *)
(*                                                                         *)
(* A DataFrame is a record [columns, rows]; a call's outcome adds the      *)
(* exception it raised ("" when it returned).  Strings are sequences of    *)
(* one-character strings, so that strip() and lower() are computed.        *)
(* Similarities are kept in tenths (0.7 -> 7): every value the code forms  *)
(* is 0.0, 0.0+0.7, 0.0+0.3 or 0.0+0.7+0.3, and these float sums are       *)
(* exactly 0.0, 0.7, 0.3 and 1.0.  The 'title' column is carried through   *)
(* unread and unwritten and is left out of the rows.                       *)
(***************************************************************************)
EXTENDS Integers, Sequences, FiniteSets, TLC

\* ------------------------------------------------------------- bounds
\* Rows of a catalog: for the scorer alone, for the aggregator, for the service.
MaxScorerRows == 5
MaxRows == 3
MaxServedRows == 2
\* The largest top_k a caller passes, and the longest list of seed ids.
MaxTopK == 2
MaxSeeds == 2

\* --------------------------------------------------- program constants
GenreWeight == 7
ArtistWeight == 3
TopFactor == 2
DiverseN == 5
ExtraRows == 3
PerSeedTopK == 3

Min(a, b) == IF a < b THEN a ELSE b

\* ------------------------------------------------------------ strings
\* A missing cell (NaN after read_csv).
NaN == <<"NaN">>

IsSpace(c) == c = " "

\* str.lower on the alphabet the catalogs use.
LowerChar(c) ==
  CASE c = "R" -> "r"
    [] c = "J" -> "j"
    [] c = "A" -> "a"
    [] c = "B" -> "b"
    [] OTHER -> c

RECURSIVE LStrip(_)
LStrip(s) ==
  IF s # <<>> /\ IsSpace(Head(s)) THEN LStrip(Tail(s)) ELSE s

RECURSIVE RStrip(_)
RStrip(s) ==
  IF s # <<>> /\ IsSpace(s[Len(s)]) THEN RStrip(SubSeq(s, 1, Len(s) - 1)) ELSE s

Strip(s) == RStrip(LStrip(s))

Lower(s) == [i \in DOMAIN s |-> LowerChar(s[i])]

\* clean_string without strip().
clean_string_unstripped(val) == IF val # NaN THEN Lower(val) ELSE <<>>

\* clean_string: str(val).strip().lower() if pd.notna(val) else ""
clean_string(val) == IF val # NaN THEN Lower(Strip(val)) ELSE <<>>

\* --------------------------------------------------------- DataFrames
TrackColumns == {"track_id", "genre_top", "artist_name"}
ScoredColumns == TrackColumns \cup {"similarity"}

\* What a call produced: the exception it raised, or a frame.
Returned(cols, rows) == [raised |-> "", columns |-> cols, rows |-> rows]
Raised(exc) == [raised |-> exc, columns |-> {}, rows |-> <<>>]

\* pd.DataFrame()
EmptyDataFrame == Returned({}, <<>>)

\* DataFrame.head(k), k >= 0
HeadRows(rows, k) == SubSeq(rows, 1, Min(k, Len(rows)))

RemoveAt(rows, i) == SubSeq(rows, 1, i - 1) \o SubSeq(rows, i + 1, Len(rows))

\* drop_duplicates that drops nothing.
KeepDuplicates(rows) == rows

\* drop_duplicates(subset='track_id', keep='last').
DropDuplicatesKeepLast(rows) ==
  LET last(i) == \A j \in (i + 1)..Len(rows) : rows[j].track_id # rows[i].track_id
      F[i \in 0..Len(rows)] ==
        IF i = 0 THEN <<>>
        ELSE IF last(i) THEN Append(F[i - 1], rows[i]) ELSE F[i - 1]
  IN  F[Len(rows)]

\* drop_duplicates(subset='track_id'): the first row of each id is kept.
DropDuplicates(rows) ==
  LET first(i) == \A j \in 1..(i - 1) : rows[j].track_id # rows[i].track_id
      F[i \in 0..Len(rows)] ==
        IF i = 0 THEN <<>>
        ELSE IF first(i) THEN Append(F[i - 1], rows[i]) ELSE F[i - 1]
  IN  F[Len(rows)]

MaxSimilarity(rows) ==
  CHOOSE m \in {rows[i].similarity : i \in DOMAIN rows} :
    \A i \in DOMAIN rows : rows[i].similarity <= m

\* sort_values(by='similarity', ascending=False).head(k).  The sort is the
\* default kind='quicksort', which is not stable: rows of equal similarity
\* come out in an order the numpy build decides.  The set of every outcome.
RECURSIVE SortValuesHead(_, _)
SortValuesHead(rows, k) ==
  IF k = 0 \/ rows = <<>> THEN {<<>>}
  ELSE LET m == MaxSimilarity(rows)
       IN  UNION { { <<rows[i]>> \o t : t \in SortValuesHead(RemoveAt(rows, i), k - 1) } :
                   i \in {j \in DOMAIN rows : rows[j].similarity = m} }

\* sample(n=n, random_state=42) on a frame of at least n rows: n distinct rows
\* in the order the seeded generator draws them.  The set of every draw.
RECURSIVE Sample(_, _)
Sample(rows, n) ==
  IF n = 0 THEN {<<>>}
  ELSE UNION { { <<rows[i]>> \o t : t \in Sample(RemoveAt(rows, i), n - 1) } :
               i \in DOMAIN rows }

\* ------------------------------------------------- the single-seed scorer
TrackIdValues(df) == {df[i].track_id : i \in DOMAIN df}

\* track_df[track_df['track_id'] == track_id].iloc[0]
InputTrack(track_id, df) ==
  df[CHOOSE i \in DOMAIN df :
       /\ df[i].track_id = track_id
       /\ \A j \in 1..(i - 1) : df[j].track_id # track_id]

\* The selection without != track_id: the seed's own row stays.
SelectAll(track_id, df) == [shared |-> FALSE, rows |-> df]

\* The selection without .copy(), as a view of the caller's rows.
SelectOthersView(track_id, df) ==
  [shared |-> TRUE, rows |-> SelectSeq(df, LAMBDA r : r.track_id # track_id)]

\* track_df[track_df['track_id'] != track_id].copy(): the rows of the other
\* tracks, in storage of their own (shared is FALSE: a write to the result
\* does not reach the frame it was taken from).
SelectOthers(track_id, df) ==
  [shared |-> FALSE, rows |-> SelectSeq(df, LAMBDA r : r.track_id # track_id)]

\* One row of the catalog after lines 30-31: both attributes normalized.
CleanRow(row) ==
  [track_id |-> row.track_id, genre_top |-> clean_string(row.genre_top),
   artist_name |-> clean_string(row.artist_name)]

\* One candidate row after lines 30-35: normalized attributes, and a similarity
\* that starts at 0.0 and gains 0.7 on a genre match and 0.3 on an artist match.
ScoredRow(row, genre, artist) ==
  LET c == CleanRow(row)
  IN  [track_id |-> c.track_id, genre_top |-> c.genre_top, artist_name |-> c.artist_name,
       similarity |-> 0 + (IF c.genre_top = genre THEN GenreWeight ELSE 0)
                        + (IF c.artist_name = artist THEN ArtistWeight ELSE 0)]

\* candidates after lines 29-35.
Candidates(track_id, df) ==
  LET input_track == InputTrack(track_id, df)
      genre == clean_string(input_track.genre_top)
      artist == clean_string(input_track.artist_name)
      others == SelectOthers(track_id, df).rows
  IN  [i \in DOMAIN others |-> ScoredRow(others[i], genre, artist)]

\* The frame the caller passed, as it is when the call ends: lines 30-35 write
\* to candidates, which reaches the caller's rows only if storage is shared.
FrameAfterScoring(track_id, df) ==
  IF track_id \notin TrackIdValues(df) THEN df
  ELSE IF SelectOthers(track_id, df).shared
       THEN [i \in DOMAIN df |->
               IF df[i].track_id # track_id THEN CleanRow(df[i]) ELSE df[i]]
       ELSE df

\* The rows the diversity draw is taken from: candidates[genre_top != genre].
DiversePool(track_id, df) ==
  LET genre == clean_string(InputTrack(track_id, df).genre_top)
  IN  SelectSeq(Candidates(track_id, df), LAMBDA r : r.genre_top # genre)

\* The number of rows asked of sample(): min(5, len(candidates)).
DiverseCount(track_id, df) == Min(DiverseN, Len(Candidates(track_id, df)))

\* top.head(top_k), for every order the sort can leave ties in.
TopRows(track_id, df, top_k) ==
  { HeadRows(top, top_k) :
    top \in SortValuesHead(Candidates(track_id, df), top_k * TopFactor) }

\* recommend_based_on_genre_artist: the set of outcomes a call can have.
\* sample() raises ValueError when asked for more rows than the pool holds.
recommend_based_on_genre_artist(track_id, df, top_k) ==
  IF track_id \notin TrackIdValues(df) THEN {EmptyDataFrame}
  ELSE LET pool == DiversePool(track_id, df)
           n == DiverseCount(track_id, df)
       IN  IF n > Len(pool)
           THEN {Raised("ValueError")}
           ELSE { Returned(ScoredColumns,
                    HeadRows(DropDuplicates(top \o diverse), top_k + ExtraRows)) :
                  top \in TopRows(track_id, df, top_k),
                  diverse \in Sample(pool, n) }

\* ------------------------------------------------ the multi-seed aggregator
\* pd.concat([a, b]) of two frames: the union of the columns, the rows of a
\* and then the rows of b.
Concat(a, b) == Returned(a.columns \cup b.columns, a.rows \o b.rows)

\* The loop of lines 43-45 from seed i on, on frame df: the results of the
\* scorer's calls in call order, for every way they can come out.  A call
\* that raises ends the loop: nothing catches the exception.
RECURSIVE ScorerCalls(_, _, _)
ScorerCalls(fav_ids, i, df) ==
  IF i > Len(fav_ids) THEN {<<>>}
  ELSE UNION {
         IF recs.raised # "" THEN {<<recs>>}
         ELSE { <<recs>> \o rest :
                rest \in ScorerCalls(fav_ids, i + 1, FrameAfterScoring(fav_ids[i], df)) } :
         recs \in recommend_based_on_genre_artist(fav_ids[i], df, PerSeedTopK) }

\* all_recs after the calls: pd.DataFrame() with each recs concatenated to it.
RECURSIVE AllRecs(_)
AllRecs(calls) ==
  IF calls = <<>> THEN EmptyDataFrame
  ELSE Concat(AllRecs(SubSeq(calls, 1, Len(calls) - 1)), calls[Len(calls)])

\* The frame the caller passed, after the first n calls of the loop.
RECURSIVE FrameAfterCalls(_, _, _)
FrameAfterCalls(fav_ids, n, df) ==
  IF n = 0 THEN df
  ELSE FrameAfterScoring(fav_ids[n], FrameAfterCalls(fav_ids, n - 1, df))

\* head(top_k) with the sort left out.
HeadUnsorted(frame, top_k) ==
  IF "similarity" \notin frame.columns THEN {Raised("KeyError")}
  ELSE {Returned(frame.columns, HeadRows(frame.rows, top_k))}

\* sort_values(by='similarity', ascending=False).head(top_k) on a frame:
\* KeyError when the frame has no such column.
SortedHead(frame, top_k) ==
  IF "similarity" \notin frame.columns THEN {Raised("KeyError")}
  ELSE { Returned(frame.columns, rows) : rows \in SortValuesHead(frame.rows, top_k) }

\* recommend_from_favorites: every run of a call, as the results of the
\* scorer's calls (calls), all_recs.drop_duplicates(subset='track_id')
\* (deduped) and what the call produced (out).
recommend_from_favorites(fav_ids, df, top_k) ==
  UNION {
    IF calls # <<>> /\ calls[Len(calls)].raised # ""
    THEN { [calls |-> calls, deduped |-> EmptyDataFrame, out |-> calls[Len(calls)]] }
    ELSE LET all_recs == AllRecs(calls)
             deduped == Returned(all_recs.columns, DropDuplicates(all_recs.rows))
         IN  { [calls |-> calls, deduped |-> deduped, out |-> out] :
               out \in SortedHead(deduped, top_k) } :
    calls \in ScorerCalls(fav_ids, 1, df) }

recommend_from_watch_history(history_ids, df, top_k) ==
  recommend_from_favorites(history_ids, df, top_k)

\* ------------------------------------------------------------- handlers
\* The body both modules give recommend(req) (app.py 72-82, recommend_api.py
\* 58-68), for every way it can run: the exception that left it (raised, with
\* status_code for an HTTPException), whether recommend_from_favorites or
\* recommend_from_watch_history was entered, the scorer calls made, and the
\* records returned.
RecommendBody(req, df) ==
  IF req.track_ids = <<>>
  THEN { [raised |-> "HTTPException", status_code |-> 400, invoked |-> FALSE,
          ncalls |-> 0, body |-> <<>>] }
  ELSE IF req.source \in {"history", "favorites"}
  THEN { [raised |-> run.out.raised, status_code |-> 0, invoked |-> TRUE,
          ncalls |-> Len(run.calls), body |-> run.out.rows] :
         run \in IF req.source = "history"
                 THEN recommend_from_watch_history(req.track_ids, df, req.top_k)
                 ELSE recommend_from_favorites(req.track_ids, df, req.top_k) }
  ELSE { [raised |-> "HTTPException", status_code |-> 400, invoked |-> FALSE,
          ncalls |-> 0, body |-> <<>>] }

\* app.py: the body runs inside try, and `except Exception` turns whatever
\* leaves it into HTTPException(500).  HTTPException derives from Exception.
AppStatus(b) == IF b.raised # "" THEN 500 ELSE 200

\* recommend_api.py: no try.  FastAPI answers an HTTPException with its
\* status_code and any other exception with 500.
ApiStatus(b) ==
  IF b.raised = "HTTPException" THEN b.status_code
  ELSE IF b.raised # "" THEN 500 ELSE 200

\* ------------------------------------------------------------ catalogs
\* The raw cells a catalog row is made of: spellings that differ in case and
\* surrounding blanks, and the missing cell.
GenreValues == << <<"R">>, <<" ", "r">>, <<"J">>, NaN >>
ArtistValues == << <<"A">>, NaN >>

\* Every pair of a genre cell and an artist cell, in a fixed order.
AllCells ==
  [k \in 1..(Len(GenreValues) * Len(ArtistValues)) |->
     << GenreValues[((k - 1) % Len(GenreValues)) + 1],
        ArtistValues[((k - 1) \div Len(GenreValues)) + 1] >>]

\* The cells that no earlier cell equals after clean_string: one spelling of
\* each normalized pair.
PlainCells ==
  SelectSeq(AllCells,
    LAMBDA c : \A k \in DOMAIN AllCells :
      ( /\ clean_string(AllCells[k][1]) = clean_string(c[1])
        /\ clean_string(AllCells[k][2]) = clean_string(c[2]) )
      => \E j \in 1..k : AllCells[j] = c)

\* Non-decreasing sequences of n indices into a list of m cells, each at
\* least lo.  No operator of the model depends on the position of a row (ties
\* of the sort and the draw are taken in every order), so one row order per
\* multiset of rows is enough.
RECURSIVE KindSeqs(_, _, _)
KindSeqs(n, lo, m) ==
  IF n = 0 THEN {<<>>}
  ELSE UNION { { <<k>> \o t : t \in KindSeqs(n - 1, k, m) } : k \in lo..m }

\* The table read_csv loads from rows of the given cells: track ids 1..n.
TableOf(rowcells) ==
  [i \in DOMAIN rowcells |->
     [track_id |-> i, genre_top |-> rowcells[i][1], artist_name |-> rowcells[i][2]]]

\* Every catalog of at most n rows over the cells.
CatalogsOf(cells, n) ==
  UNION { { TableOf([i \in DOMAIN ks |-> cells[ks[i]]]) : ks \in KindSeqs(r, 1, Len(cells)) } :
          r \in 0..n }

\* DiverseN rows of a genre no other row has, every other one by the artist "A".
Padding ==
  [i \in 1..DiverseN |-> << <<"B">>, IF i % 2 = 1 THEN <<"A">> ELSE NaN >> ]

\* A row ("R", "A"), a row of any kind and the padding: the smallest catalogs in
\* which a track shares its genre with another and the diversity draw still
\* finds its DiverseN rows of other genres.
PaddedCatalogs ==
  { TableOf(<< << <<"R">>, <<"A">> >>, AllCells[k] >> \o Padding) : k \in DOMAIN AllCells }

\* ---------------------------------------------------------------- state
VARIABLES
  startup_df,   \* the table read_csv returned at startup (app.py 14), kept to compare
  track_df,     \* the module-level track_df every call is given
  probe,        \* a direct call of recommend_based_on_genre_artist and its result
  agg,          \* a direct call of recommend_from_favorites and its run
  http,         \* the /recommend request being answered and its response
  job           \* a /recommend request of app.py part-way through its loop

vars == <<startup_df, track_df, probe, agg, http, job>>

NoProbe == [track_id |-> 0, top_k |-> 0, out |-> EmptyDataFrame]

NoAgg == [fav_ids |-> <<>>, top_k |-> 0, calls |-> <<>>,
          deduped |-> EmptyDataFrame, out |-> EmptyDataFrame]

NoRequest == [track_ids |-> <<>>, source |-> "", top_k |-> 0]

NoHttp == [entry |-> "", req |-> NoRequest, status |-> 0, invoked |-> FALSE,
           body |-> <<>>, overlapped |-> FALSE]

\* overlapped: a scorer call of another request ran while this one was in its loop.
NoJob == [pc |-> "idle", req |-> NoRequest, i |-> 0, calls |-> <<>>, overlapped |-> FALSE]

\* An id no row of df has.
AbsentIds(df) == {0, Len(df) + 1}

\* Lists of at most n ids, each a track id of df or its successor, which is absent.
RECURSIVE IdLists(_, _)
IdLists(df, n) ==
  IF n = 0 THEN {<<>>}
  ELSE LET shorter == IdLists(df, n - 1)
       IN  shorter \cup { Append(l, id) : l \in {x \in shorter : Len(x) = n - 1},
                                         id \in 1..(Len(df) + 1) }

\* RecommendationRequest: track_ids, source, top_k.
Requests(df) ==
  [track_ids : IdLists(df, MaxSeeds), source : {"history", "favorites", "likes"},
   top_k : 1..MaxTopK]

Load(catalogs) ==
  /\ startup_df \in catalogs
  /\ track_df = startup_df
  /\ probe = NoProbe
  /\ agg = NoAgg
  /\ http = NoHttp
  /\ job = NoJob

\* ------------------------------------------ the scorer, called directly
InitScorer == Load(CatalogsOf(AllCells, MaxScorerRows) \cup PaddedCatalogs)

ScoreAgainstSeed ==
  /\ probe = NoProbe
  /\ \E track_id \in TrackIdValues(track_df) \cup AbsentIds(track_df), top_k \in 1..MaxTopK :
      \E out \in recommend_based_on_genre_artist(track_id, track_df, top_k) :
        /\ probe' = [track_id |-> track_id, top_k |-> top_k, out |-> out]
        /\ track_df' = FrameAfterScoring(track_id, track_df)
  /\ UNCHANGED <<startup_df, agg, http, job>>

NextScorer == ScoreAgainstSeed

SpecScorer == InitScorer /\ [][NextScorer]_vars

\* -------------------------------------- the aggregator, called directly
InitAggregate == Load(CatalogsOf(PlainCells, MaxRows))

Aggregate ==
  /\ agg = NoAgg
  /\ \E fav_ids \in IdLists(track_df, MaxSeeds), top_k \in 1..MaxTopK :
      \E run \in recommend_from_favorites(fav_ids, track_df, top_k) :
        /\ agg' = [fav_ids |-> fav_ids, top_k |-> top_k, calls |-> run.calls,
                   deduped |-> run.deduped, out |-> run.out]
        /\ track_df' = FrameAfterCalls(fav_ids, Len(run.calls), track_df)
  /\ UNCHANGED <<startup_df, probe, http, job>>

NextAggregate == Aggregate

SpecAggregate == InitAggregate /\ [][NextAggregate]_vars

\* ------------------- the aggregator on a known seed and an absent one
InitUnknownSeed == Load(CatalogsOf(AllCells, MaxRows) \cup PaddedCatalogs)

AggregateWithUnknown ==
  /\ agg = NoAgg
  /\ \E s \in TrackIdValues(track_df), u \in AbsentIds(track_df),
         top_k \in 1..(PerSeedTopK + ExtraRows) :
      \E run \in recommend_from_favorites(<<s, u>>, track_df, top_k) :
        /\ agg' = [fav_ids |-> <<s, u>>, top_k |-> top_k, calls |-> run.calls,
                   deduped |-> run.deduped, out |-> run.out]
        /\ track_df' = FrameAfterCalls(<<s, u>>, Len(run.calls), track_df)
  /\ UNCHANGED <<startup_df, probe, http, job>>

NextUnknownSeed == AggregateWithUnknown

SpecUnknownSeed == InitUnknownSeed /\ [][NextUnknownSeed]_vars

\* ------------------------------------------------ the service, one request
\* at a time: each handler runs from its first line to its response.
Init == Load(CatalogsOf(PlainCells, MaxServedRows))

\* POST /recommend of app.py
AppRecommend ==
  /\ http = NoHttp
  /\ \E req \in Requests(track_df) :
      \E b \in RecommendBody(req, track_df) :
        /\ http' = [entry |-> "app", req |-> req, status |-> AppStatus(b),
                    invoked |-> b.invoked,
                    body |-> IF AppStatus(b) = 200 THEN b.body ELSE <<>>,
                    overlapped |-> FALSE]
        /\ track_df' = FrameAfterCalls(req.track_ids, b.ncalls, track_df)
  /\ UNCHANGED <<startup_df, probe, agg, job>>

\* POST /recommend of recommend_api.py
ApiRecommend ==
  /\ http = NoHttp
  /\ \E req \in Requests(track_df) :
      \E b \in RecommendBody(req, track_df) :
        /\ http' = [entry |-> "recommend_api", req |-> req, status |-> ApiStatus(b),
                    invoked |-> b.invoked,
                    body |-> IF ApiStatus(b) = 200 THEN b.body ELSE <<>>,
                    overlapped |-> FALSE]
        /\ track_df' = FrameAfterCalls(req.track_ids, b.ncalls, track_df)
  /\ UNCHANGED <<startup_df, probe, agg, job>>

\* The response leaves; the next request can be taken.
Deliver ==
  /\ http # NoHttp
  /\ http' = NoHttp
  /\ UNCHANGED <<startup_df, track_df, probe, agg, job>>

Next == AppRecommend \/ ApiRecommend \/ Deliver

Spec == Init /\ [][Next]_vars

\* ------------------- the service of app.py with requests that overlap: one
\* request is followed statement by statement through the loop of
\* recommend_from_favorites, and the scorer calls of the requests that other
\* worker threads serve run between its steps.
InitOverlap == Load(CatalogsOf(PlainCells, MaxServedRows))

AppResponse(req, b, overlapped) ==
  [entry |-> "app", req |-> req, status |-> AppStatus(b), invoked |-> b.invoked,
   body |-> IF AppStatus(b) = 200 THEN b.body ELSE <<>>, overlapped |-> overlapped]

\* Lines 72-80: an empty list or an unknown source is answered at once; a
\* valid request enters recommend_from_favorites (line 42).
Begin ==
  /\ http = NoHttp
  /\ job = NoJob
  /\ \E req \in Requests(track_df) :
      IF req.track_ids = <<>> \/ req.source \notin {"history", "favorites"}
      THEN /\ \E b \in RecommendBody(req, track_df) : http' = AppResponse(req, b, FALSE)
           /\ UNCHANGED job
      ELSE /\ job' = [pc |-> "loop", req |-> req, i |-> 1, calls |-> <<>>,
                      overlapped |-> FALSE]
           /\ UNCHANGED http
  /\ UNCHANGED <<startup_df, track_df, probe, agg>>

\* Lines 43-45, one iteration: the scorer reads track_df as it is now.
LoopStep ==
  /\ job.pc = "loop"
  /\ job.i <= Len(job.req.track_ids)
  /\ \E recs \in recommend_based_on_genre_artist(job.req.track_ids[job.i], track_df,
                                                  PerSeedTopK) :
      /\ track_df' = FrameAfterScoring(job.req.track_ids[job.i], track_df)
      /\ IF recs.raised # ""
         THEN /\ http' = AppResponse(job.req,
                           [raised |-> recs.raised, invoked |-> TRUE, body |-> <<>>],
                           job.overlapped)
              /\ job' = NoJob
         ELSE /\ job' = [job EXCEPT !.i = job.i + 1, !.calls = Append(job.calls, recs)]
              /\ UNCHANGED http
  /\ UNCHANGED <<startup_df, probe, agg>>

\* Line 46, then lines 82-85.
Finish ==
  /\ job.pc = "loop"
  /\ job.i > Len(job.req.track_ids)
  /\ LET all_recs == AllRecs(job.calls)
         deduped == Returned(all_recs.columns, DropDuplicates(all_recs.rows))
     IN  \E out \in SortedHead(deduped, job.req.top_k) :
           http' = AppResponse(job.req,
                     [raised |-> out.raised, invoked |-> TRUE, body |-> out.rows],
                     job.overlapped)
  /\ job' = NoJob
  /\ UNCHANGED <<startup_df, track_df, probe, agg>>

\* A request served by another thread makes one scorer call.
OtherCall ==
  /\ \E track_id \in TrackIdValues(track_df) \cup AbsentIds(track_df) :
       track_df' = FrameAfterScoring(track_id, track_df)
  /\ job' = IF job.pc = "loop" THEN [job EXCEPT !.overlapped = TRUE] ELSE job
  /\ UNCHANGED <<startup_df, probe, agg, http>>

NextOverlap == Begin \/ LoopStep \/ Finish \/ OtherCall \/ Deliver

SpecOverlap == InitOverlap /\ [][NextOverlap]_vars

\* ================================================================ claims
IdsOf(rows) == {rows[i].track_id : i \in DOMAIN rows}

UniqueIds(rows) ==
  \A i, j \in DOMAIN rows : i # j => rows[i].track_id # rows[j].track_id

NonIncreasing(rows) ==
  \A i \in 1..(Len(rows) - 1) : rows[i].similarity >= rows[i + 1].similarity

RowOf(rows, id) == rows[CHOOSE i \in DOMAIN rows : rows[i].track_id = id]

PositionOf(rows, id) == CHOOSE i \in DOMAIN rows : rows[i].track_id = id

\* The normal form the specification gives each cell of the catalogs: trimmed,
\* lower-cased, and empty for a missing cell.  Written out cell by cell.
NormalForm(cell) ==
  CASE cell = <<"R">> -> <<"r">>
    [] cell = <<" ", "r">> -> <<"r">>
    [] cell = <<"J">> -> <<"j">>
    [] cell = <<"B">> -> <<"b">>
    [] cell = <<"A">> -> <<"a">>
    [] cell = NaN -> <<>>

SameGenre(a, b) == NormalForm(a.genre_top) = NormalForm(b.genre_top)
SameArtist(a, b) == NormalForm(a.artist_name) = NormalForm(b.artist_name)

ProbeKnown == probe # NoProbe /\ probe.track_id \in IdsOf(startup_df)
ProbeReturned == probe # NoProbe /\ probe.out.raised = ""
ProbeSeed == RowOf(startup_df, probe.track_id)

\* The tracks other than the probe's seed whose genre differs from (Diverse)
\* or equals (Matching) the seed's.
ProbeDiverse ==
  {i \in DOMAIN startup_df :
     startup_df[i].track_id # probe.track_id /\ ~SameGenre(startup_df[i], ProbeSeed)}
ProbeMatching ==
  {i \in DOMAIN startup_df :
     startup_df[i].track_id # probe.track_id /\ SameGenre(startup_df[i], ProbeSeed)}

AggReturned == agg # NoAgg /\ agg.out.raised = ""

\* C1: in both entry points a /recommend request with an empty track_ids list,
\* or with a source other than "history" or "favorites", is answered with
\* HTTP 400 and never enters recommend_from_favorites or
\* recommend_from_watch_history; it is never answered with HTTP 500.
C1_InvalidRequestIs400 ==
  ( /\ http # NoHttp
    /\ \/ http.req.track_ids = <<>>
       \/ http.req.source \notin {"history", "favorites"} )
  => (http.status = 400 /\ ~http.invoked)

\* C2: recommend_based_on_genre_artist raises no error, for any catalog with
\* unique ids, any seed id and any positive top_k; when the number E of other
\* tracks whose normalized genre differs from the seed's is below 5, the
\* diversity draw returns exactly those E rows (so the result has the top rows
\* and all E of them, up to top_k + 3 rows); an unknown seed or an empty
\* catalog gives an empty result.
C2_ScorerRaisesNothing ==
  probe # NoProbe =>
    /\ probe.out.raised = ""
    /\ ~ProbeKnown => probe.out.rows = <<>>
    /\ (ProbeKnown /\ Cardinality(ProbeDiverse) < DiverseN) =>
         Len(probe.out.rows) =
           Min(probe.top_k + ExtraRows,
               Cardinality(ProbeDiverse) + Min(probe.top_k, Cardinality(ProbeMatching)))

\* C3: recommend_from_favorites called with an empty seed list, or with a
\* seed list in which every id is absent from the catalog, returns an empty
\* sequence and raises no error.
C3_NoKnownSeedGivesEmpty ==
  ( /\ agg # NoAgg
    /\ \A i \in DOMAIN agg.fav_ids : agg.fav_ids[i] \notin IdsOf(startup_df) )
  => (agg.out.raised = "" /\ agg.out.rows = <<>>)

\* C4: for every known seed and every row of the result of
\* recommend_based_on_genre_artist, the similarity is 1.0 if both the
\* normalized genre and the normalized artist of the track equal the seed's,
\* 0.7 if only the genre does, 0.3 if only the artist does, and 0.0 if neither
\* does (normalized: trimmed, lower-cased, empty for a missing value).
C4_SimilarityByMatch ==
  ProbeReturned =>
    \A i \in DOMAIN probe.out.rows :
      LET track == RowOf(startup_df, probe.out.rows[i].track_id)
          g == SameGenre(track, ProbeSeed)
          a == SameArtist(track, ProbeSeed)
      IN  probe.out.rows[i].similarity =
            IF g /\ a THEN 10 ELSE IF g THEN 7 ELSE IF a THEN 3 ELSE 0

\* A result with a row that matches the seed's genre in another spelling and
\* not its artist (0.7), a row that matches both, again in another spelling
\* (1.0) being the other case of the same catalogs, beside rows that match the
\* artist only (0.3) and nothing (0.0).
C4_Witness ==
  /\ ProbeReturned
  /\ \E i \in DOMAIN probe.out.rows :
       /\ probe.out.rows[i].similarity \in {7, 10}
       /\ RowOf(startup_df, probe.out.rows[i].track_id).genre_top # ProbeSeed.genre_top
  /\ \E i \in DOMAIN probe.out.rows : probe.out.rows[i].similarity = 3
  /\ \E i \in DOMAIN probe.out.rows : probe.out.rows[i].similarity = 0

\* C5: for every seed list and every positive top_k, the sequence
\* recommend_from_favorites returns has no two entries with the same track id,
\* has at most top_k entries, and is ordered by non-increasing similarity.
C5_AggregateShape ==
  AggReturned =>
    /\ UniqueIds(agg.out.rows)
    /\ Len(agg.out.rows) <= agg.top_k
    /\ NonIncreasing(agg.out.rows)

\* Two seeds whose results share a track, more distinct tracks than top_k, and
\* a result of top_k rows that holds different similarities.
C5_Witness ==
  /\ AggReturned
  /\ Len(agg.calls) = 2
  /\ IdsOf(agg.calls[1].rows) \cap IdsOf(agg.calls[2].rows) # {}
  /\ Len(agg.deduped.rows) > agg.top_k
  /\ Len(agg.out.rows) = agg.top_k
  /\ \E i, j \in DOMAIN agg.out.rows :
       agg.out.rows[i].similarity > agg.out.rows[j].similarity

\* C6: for every catalog with unique ids, every seed id and every positive
\* top_k, the sequence recommend_based_on_genre_artist returns never holds the
\* seed's own id, holds no track id twice, and has at most top_k + 3 entries.
C6_ScorerShape ==
  ProbeReturned =>
    /\ probe.track_id \notin IdsOf(probe.out.rows)
    /\ UniqueIds(probe.out.rows)
    /\ Len(probe.out.rows) <= probe.top_k + 3

\* A known seed with more other tracks than top_k + 3, and a result of
\* exactly top_k + 3 rows.
C6_Witness ==
  /\ ProbeReturned
  /\ ProbeKnown
  /\ Len(startup_df) - 1 > probe.top_k + 3
  /\ Len(probe.out.rows) = probe.top_k + 3

\* C7 as stated: for a seed s of the catalog and an id u absent from it,
\* recommend_from_favorites([s, u], catalog, top_k) equals
\* recommend_based_on_genre_artist(s, catalog, top_k=3) deduplicated by id and
\* cut to its first top_k entries: same rows, same similarities, same order.
\* Stated on the similarities, so that the order the sort gives to rows of
\* equal similarity plays no part: the result has as many entries as that
\* prefix, and its i-th entry has the similarity of the prefix's i-th entry.
C7_EqualsScorerPrefix ==
  (AggReturned /\ Len(agg.fav_ids) = 2) =>
    LET prefix == HeadRows(DropDuplicates(agg.calls[1].rows), agg.top_k)
    IN  /\ Len(agg.out.rows) = Len(prefix)
        /\ \A i \in DOMAIN prefix : agg.out.rows[i].similarity = prefix[i].similarity

\* C7 as amended: the call raises what the scorer raises for s; otherwise the
\* absent seed contributes nothing and the result is made of rows of the
\* scorer's result for s (same tracks, same similarities), min(top_k, n) of its
\* n rows, in non-increasing order of similarity, and no row left out is more
\* similar than a row kept.
C7_SortedScorerRows ==
  (agg # NoAgg /\ Len(agg.fav_ids) = 2) =>
    IF agg.calls[1].raised # ""
    THEN Len(agg.calls) = 1 /\ agg.out = agg.calls[1]
    ELSE /\ agg.out.raised = ""
         /\ Len(agg.calls) = 2
         /\ agg.calls[2] = EmptyDataFrame
         /\ UniqueIds(agg.out.rows)
         /\ \A i \in DOMAIN agg.out.rows :
              \E j \in DOMAIN agg.calls[1].rows : agg.out.rows[i] = agg.calls[1].rows[j]
         /\ Len(agg.out.rows) = Min(agg.top_k, Len(agg.calls[1].rows))
         /\ NonIncreasing(agg.out.rows)
         /\ \A j \in DOMAIN agg.calls[1].rows :
              agg.calls[1].rows[j].track_id \notin IdsOf(agg.out.rows) =>
                \A i \in DOMAIN agg.out.rows :
                  agg.out.rows[i].similarity >= agg.calls[1].rows[j].similarity

\* The scorer's result for s has a row after a less similar one, the call
\* returns all of its rows, and a row was moved.
C7_Witness ==
  /\ AggReturned
  /\ Len(agg.fav_ids) = 2
  /\ ~NonIncreasing(agg.calls[1].rows)
  /\ Len(agg.out.rows) = Len(agg.calls[1].rows)
  /\ agg.out.rows # agg.calls[1].rows

\* The call of the loop that first returned the track.
EarliestCall(id) ==
  CHOOSE k \in DOMAIN agg.calls :
    /\ id \in IdsOf(agg.calls[k].rows)
    /\ \A j \in 1..(k - 1) : id \notin IdsOf(agg.calls[j].rows)

\* C8: when the scorer returns the same track for several seeds, the entry
\* recommend_from_favorites keeps is the first in accumulation order: the
\* similarity the track carries into the sort and into the result is the one
\* computed against the earliest seed whose result holds it, even when a later
\* seed scores it higher.
C8_FirstOccurrenceKept ==
  AggReturned =>
    /\ \A i \in DOMAIN agg.deduped.rows :
         agg.deduped.rows[i] =
           RowOf(agg.calls[EarliestCall(agg.deduped.rows[i].track_id)].rows,
                 agg.deduped.rows[i].track_id)
    /\ \A i \in DOMAIN agg.out.rows :
         agg.out.rows[i].similarity =
           RowOf(agg.calls[EarliestCall(agg.out.rows[i].track_id)].rows,
                 agg.out.rows[i].track_id).similarity

\* A track of the result that a later seed scored higher than the earliest.
C8_Witness ==
  /\ AggReturned
  /\ \E i \in DOMAIN agg.out.rows :
       \E k \in DOMAIN agg.calls :
         /\ k > EarliestCall(agg.out.rows[i].track_id)
         /\ agg.out.rows[i].track_id \in IdsOf(agg.calls[k].rows)
         /\ RowOf(agg.calls[k].rows, agg.out.rows[i].track_id).similarity
              > agg.out.rows[i].similarity

\* C9: the descending sort of recommend_from_favorites is stable: two entries
\* of equal similarity come out in the order they had in the deduplicated
\* accumulation.
C9_SortIsStable ==
  AggReturned =>
    \A i, j \in DOMAIN agg.out.rows :
      (i < j /\ agg.out.rows[i].similarity = agg.out.rows[j].similarity) =>
        PositionOf(agg.deduped.rows, agg.out.rows[i].track_id)
          < PositionOf(agg.deduped.rows, agg.out.rows[j].track_id)

\* C10: after any sequence or interleaving of /recommend requests, track_df
\* is the table loaded at startup (scoring writes to a copy), and the answer
\* to a request is one the same request has on the startup table, whatever
\* ran before it or between its steps.
C10_CatalogNeverWritten ==
  /\ track_df = startup_df
  /\ http # NoHttp =>
       \E b \in RecommendBody(http.req, startup_df) :
         /\ http.status = AppStatus(b)
         /\ http.invoked = b.invoked
         /\ http.body = IF AppStatus(b) = 200 THEN b.body ELSE <<>>

\* A request answered 200 with rows whose genre was normalized, other
\* requests' scorer calls having run between its steps.
C10_Witness ==
  /\ http.status = 200
  /\ http.overlapped
  /\ \E i \in DOMAIN http.body :
       http.body[i].genre_top # RowOf(startup_df, http.body[i].track_id).genre_top
====
